---- MODULE Spec2Model ----
(***************************************************************************)
(* Model of tools/copilot_scan.py: the per-file rule pass of the scanner.  *)
(*                                                                         *)
(* A file is a sequence of lines separated by '\n'; a line is a sequence   *)
(* of words separated by single spaces, so <<>> is a whitespace-only line  *)
(* and <<"public","class","Foo">> is the line "public class Foo".  The     *)
(* regular expressions and substring tests of the script are evaluated on  *)
(* this word stream: \s* and \s+ run across line ends exactly as they do   *)
(* in Python, '^' (re.M) anchors at the first character of a line.         *)
(* Lines and columns are 1-based as in the report, list indices are        *)
(* 0-based as in the script (At(lines, j) is lines[j]).                    *)
(***************************************************************************)
EXTENDS Integers, Sequences, FiniteSets, TLC

VARIABLES text, relPath, cfg, results, pc

vars == <<text, relPath, cfg, results, pc>>

-----------------------------------------------------------------------------
(* Program constants *)

BurstWindow == 20
StoryReach == 6
TokenLookahead == 3
MinStoryLen == 20

ignore_markers == {"copilot-ignore", "U+1F6AB", "U+1F6D1"}

interesting_tokens ==
  {"SystemBase", "ISystem", "ComponentSystemBase", "IComponentData",
   "ISharedComponentData", "IBufferElementData", "MonoBehaviour", "Baker",
   "Authoring", "IBaker"}

-----------------------------------------------------------------------------
(* Words of the scanned vocabulary, classified by the substring or pattern *)
(* test of the script that they satisfy.                                   *)

Visibility == {"public", "internal", "private", "protected"}
Identifiers == {"Foo", "Bar", "FooAuthoring"}
NativeArrayWords == {"NativeArray<int>"}
NullWords == {"null", "null;"}
NullOperators == {"==", "="}
EntityNullWords == {"Entity.Null", "Entity.Null;"}
BurstWords == {"[BurstCompile]"}
BracketWords == {"[BurstCompile]", "[Serializable]"}
BraceWords == {"{"}
CommentWords == {"//"}
StoryWords == {"Story:"}
StoryWordsAnyCase == {"Story:", "story:", "STORY:"}
SystemStateWords == {"SystemState"}

\* t in word, for some t of interesting_tokens
IsInteresting(w) == w \in interesting_tokens \/ w \in {"FooAuthoring"}

-----------------------------------------------------------------------------
(* Text helpers *)

Min(a, b) == IF a < b THEN a ELSE b
Opt(b) == IF b THEN 1 ELSE 0

\* lines[j] of the script, j 0-based
At(lines, j) == lines[j + 1]

RECURSIVE Width(_, _)
\* number of characters of the first k words of a line, each followed by a space
Width(line, k) == IF k = 0 THEN 0 ELSE Width(line, k - 1) + Len(line[k]) + 1

\* idx - text.rfind('\n', 0, idx) for a match that starts at word k of its line
Col(line, k) == Width(line, k - 1) + 1

\* length of ' '.join(line[k+1:]), the stripped text after word k
AfterLen(line, k) ==
  IF k >= Len(line) THEN 0 ELSE Width(line, Len(line)) - Width(line, k) - 1

RECURSIVE FlatFrom(_, _)
\* the words of lines n, n+1, ... in order, each with its line and position
FlatFrom(lines, n) ==
  IF n > Len(lines) THEN <<>>
  ELSE [k \in 1..Len(lines[n]) |-> [w |-> lines[n][k], ln |-> n, k |-> k]]
       \o FlatFrom(lines, n + 1)

Flat(lines) == FlatFrom(lines, 1)

RECURSIVE FirstIdx(_, _)
\* index in Flat(lines) of the first word at or after the start of line n
FirstIdx(lines, n) ==
  IF n = 1 THEN 1 ELSE FirstIdx(lines, n - 1) + Len(lines[n - 1])

\* the word at index q of the stream, "" past the end of the text
TokAt(flat, q) == IF q \in 1..Len(flat) THEN flat[q].w ELSE ""

\* any(tok in line for tok in ignore_markers)
HasIgnoreMarker(line) == \E k \in 1..Len(line) : line[k] \in ignore_markers

\* '/Editor/' in ('/' + relPath)
InEditorPath(path) == \E k \in 1..(Len(path) - 1) : path[k] = "Editor"

Finding(tag, ln, col, info, trig) ==
  [tag |-> tag, ln |-> ln, col |-> col, info |-> info, trig |-> trig]

-----------------------------------------------------------------------------
(* NativeArray rule *)

RECURSIVE NativeArrayFrom(_, _, _)
NativeArrayFrom(lines, flat, q) ==
  IF q > Len(flat) THEN <<>>
  ELSE (IF flat[q].w \in NativeArrayWords
        THEN <<Finding("NativeArray", flat[q].ln,
                       Col(lines[flat[q].ln], flat[q].k), "", 0)>>
        ELSE <<>>)
       \o NativeArrayFrom(lines, flat, q + 1)

NativeArrayFindings(lines) == NativeArrayFrom(lines, Flat(lines), 1)

-----------------------------------------------------------------------------
(* Null rule *)

RECURSIVE NullFrom(_, _, _)
NullFrom(lines, flat, q) ==
  IF q > Len(flat) THEN <<>>
  ELSE LET isOp == flat[q].w \in NullOperators /\ TokAt(flat, q + 1) \in NullWords
           isWord == flat[q].w \in NullWords
           line == lines[flat[q].ln]
       IN (IF (isOp \/ isWord) /\ ~HasIgnoreMarker(line)
           THEN <<Finding("Null", flat[q].ln, Col(line, flat[q].k), "", 0)>>
           ELSE <<>>)
          \o NullFrom(lines, flat, IF isOp THEN q + 2 ELSE q + 1)

NullFindings(lines, path, c) ==
  LET exempt_editor == c.ExemptEditorNullChecks /\ InEditorPath(path)
  IN IF exempt_editor THEN <<>> ELSE NullFrom(lines, Flat(lines), 1)

-----------------------------------------------------------------------------
(* Unsealed class rule *)

\* patterns['Class'] tried at the start of line n
ClassMatchAt(lines, flat, n) ==
  LET q0 == FirstIdx(lines, n)
      q1 == q0 + Opt(TokAt(flat, q0) \in Visibility)
      q2 == q1 + Opt(TokAt(flat, q1) = "partial")
      q3 == q2 + Opt(TokAt(flat, q2) = "sealed")
      q4 == q3 + Opt(TokAt(flat, q3) = "static")
      q5 == q4 + Opt(TokAt(flat, q4) = "abstract")
  IN [ok |-> TokAt(flat, q5) = "class" /\ TokAt(flat, q5 + 1) \in Identifiers,
      ln |-> n,
      sealed |-> q3 > q2,
      static |-> q4 > q3,
      name |-> TokAt(flat, q5 + 1),
      last |-> q5 + 1]

RECURSIVE ClassFrom(_, _, _)
\* patterns['Class'].finditer(text), from line n on
ClassFrom(lines, flat, n) ==
  IF n > Len(lines) THEN <<>>
  ELSE LET m == ClassMatchAt(lines, flat, n)
       IN IF m.ok
          THEN <<m>> \o ClassFrom(lines, flat, flat[m.last].ln + 1)
          ELSE ClassFrom(lines, flat, n + 1)

ClassMatches(lines) == ClassFrom(lines, Flat(lines), 1)

ClassFindings(lines) ==
  LET ms == SelectSeq(ClassMatches(lines), LAMBDA m : ~m.sealed /\ ~m.static)
  IN [x \in 1..Len(ms) |-> Finding("Unsealed Class", ms[x].ln, 1, ms[x].name, 0)]

-----------------------------------------------------------------------------
(* Entity.Null rule *)

RECURSIVE EntityNullFrom(_, _, _)
EntityNullFrom(lines, flat, q) ==
  IF q > Len(flat) THEN <<>>
  ELSE (IF flat[q].w \in EntityNullWords /\ ~HasIgnoreMarker(lines[flat[q].ln])
        THEN <<Finding("Entity.Null", flat[q].ln, 1, "", 0)>>
        ELSE <<>>)
       \o EntityNullFrom(lines, flat, q + 1)

EntityNullFindings(lines) == EntityNullFrom(lines, Flat(lines), 1)

-----------------------------------------------------------------------------
(* Burst+ref rule *)

\* patterns['Burst'].search(l)
HasBurst(line) == \E k \in 1..Len(line) : line[k] \in BurstWords

\* 'ref ' in lines[j]
ContainsRef(line) == \E k \in 1..(Len(line) - 1) : line[k] = "ref"

\* 'ref SystemState' in line
ContainsRefSystemState(line) ==
  \E k \in 1..(Len(line) - 1) : line[k] = "ref" /\ line[k + 1] \in SystemStateWords

\* lines[j].lstrip().startswith('{') or lines[j].lstrip().startswith('[')
ClosesWindow(line) ==
  line # <<>> /\ (Head(line) \in BraceWords \/ Head(line) \in BracketWords)

RECURSIVE BurstWindowFrom_NoBreak(_, _, _, _)
\* the inner loop without its 'break': a closing line does not end the window
BurstWindowFrom_NoBreak(lines, i, j, end) ==
  IF j >= end THEN <<>>
  ELSE LET line == At(lines, j)
       IN (IF ContainsRef(line) /\ ~HasIgnoreMarker(line)
              /\ ~ContainsRefSystemState(line)
           THEN <<Finding("Burst+ref", j + 1, 1, "", i + 1)>>
           ELSE <<>>)
          \o BurstWindowFrom_NoBreak(lines, i, j + 1, end)

RECURSIVE BurstWindowFrom(_, _, _, _)
\* the inner loop 'for j in range(i+1, end)' from j on; i and j are 0-based
BurstWindowFrom(lines, i, j, end) ==
  IF j >= end THEN <<>>
  ELSE LET line == At(lines, j)
       IN (IF ContainsRef(line) /\ ~HasIgnoreMarker(line)
              /\ ~ContainsRefSystemState(line)
           THEN <<Finding("Burst+ref", j + 1, 1, "", i + 1)>>
           ELSE <<>>)
          \o (IF ClosesWindow(line) THEN <<>>
              ELSE BurstWindowFrom(lines, i, j + 1, end))

RECURSIVE BurstFrom(_, _)
\* the outer loop 'for i,l in enumerate(lines)' from i on
BurstFrom(lines, i) ==
  IF i >= Len(lines) THEN <<>>
  ELSE (IF HasBurst(At(lines, i))
        THEN BurstWindowFrom(lines, i, i + 1, Min(Len(lines), i + BurstWindow))
        ELSE <<>>)
       \o BurstFrom(lines, i + 1)

BurstFindings(lines) == BurstFrom(lines, 0)

-----------------------------------------------------------------------------
(* Story comment rule *)

\* any(t in line for t in interesting_tokens)
HasInteresting(line) == \E k \in 1..Len(line) : IsInteresting(line[k])

\* public_type_pattern tried at the start of line n
StoryMatchAt(lines, flat, n) ==
  LET q0 == FirstIdx(lines, n)
      q1 == q0 + 1
      q2 == q1 + Opt(TokAt(flat, q1) = "partial")
      ok == /\ TokAt(flat, q0) = "public"
            /\ TokAt(flat, q2) \in {"struct", "class"}
            /\ TokAt(flat, q2 + 1) \in Identifiers
      nameLn == IF ok THEN flat[q2 + 1].ln ELSE n
  IN [ok |-> ok,
      ln |-> n,
      nameLn |-> nameLn,
      remainder |-> IF ok THEN SubSeq(lines[nameLn], flat[q2 + 1].k + 1,
                                      Len(lines[nameLn]))
                    ELSE <<>>]

RECURSIVE StoryFrom(_, _, _)
\* public_type_pattern.finditer(text), from line n on
StoryFrom(lines, flat, n) ==
  IF n > Len(lines) THEN <<>>
  ELSE LET m == StoryMatchAt(lines, flat, n)
       IN IF m.ok
          THEN <<m>> \o StoryFrom(lines, flat, m.nameLn + 1)
          ELSE StoryFrom(lines, flat, n + 1)

StoryMatches(lines) == StoryFrom(lines, Flat(lines), 1)

\* the token test reaching one line further
FoundToken_OneMore(lines, m) ==
  \/ HasInteresting(m.remainder)
  \/ LET end == Min(Len(lines), m.ln + TokenLookahead)
     IN \E k \in m.ln..end : HasInteresting(At(lines, k - 1))

\* the flag 'found' after the interesting-token test
FoundToken(lines, m) ==
  \/ HasInteresting(m.remainder)
  \/ LET end == Min(Len(lines), m.ln - 1 + TokenLookahead)
     IN \E k \in m.ln..end : HasInteresting(At(lines, k - 1))

\* s.startswith('//') and 'Story:' in s
IsStoryComment(s) ==
  s # <<>> /\ Head(s) \in CommentWords /\ \E k \in 1..Len(s) : s[k] \in StoryWords

RECURSIVE StoryScan(_, _, _)
\* the 'while prev >= 0 and ln - prev <= 6' loop; the result is story_idx
StoryScan(lines, ln, prev) ==
  IF ~(prev >= 0 /\ ln - prev <= StoryReach) THEN -1
  ELSE LET s == At(lines, prev)
       IN IF s = <<>> THEN StoryScan(lines, ln, prev - 1)
          ELSE IF Head(s) \in BracketWords THEN StoryScan(lines, ln, prev - 1)
          ELSE IF IsStoryComment(s) THEN prev
          ELSE -1

\* len(after): the stripped text after the first 'story:' of txt.lower()
StoryAfterLen(txt) ==
  LET ks == {k \in 1..Len(txt) : txt[k] \in StoryWordsAnyCase}
      k0 == CHOOSE k \in ks : \A k2 \in ks : k <= k2
  IN AfterLen(txt, k0)

\* the exemption applied to the whole candidate, 'too short' included
StoryFindingsOf_ExemptAll(lines, path, c, m) ==
  IF ~FoundToken(lines, m) THEN <<>>
  ELSE IF HasIgnoreMarker(At(lines, m.ln - 1)) THEN <<>>
  ELSE IF c.ExemptEditorNullChecks /\ InEditorPath(path) THEN <<>>
  ELSE LET story_idx == StoryScan(lines, m.ln, m.ln - 2)
       IN IF story_idx = -1
          THEN <<Finding("Story", m.ln, 1, "missing", 0)>>
          ELSE IF StoryAfterLen(At(lines, story_idx)) < MinStoryLen
               THEN <<Finding("Story", story_idx + 1, 1, "too short", 0)>>
               ELSE <<>>

\* the findings of one match of public_type_pattern
StoryFindingsOf(lines, path, c, m) ==
  IF ~FoundToken(lines, m) THEN <<>>
  ELSE IF HasIgnoreMarker(At(lines, m.ln - 1)) THEN <<>>
  ELSE LET story_idx == StoryScan(lines, m.ln, m.ln - 2)
       IN IF story_idx = -1
          THEN IF c.ExemptEditorNullChecks /\ InEditorPath(path) THEN <<>>
               ELSE <<Finding("Story", m.ln, 1, "missing", 0)>>
          ELSE IF StoryAfterLen(At(lines, story_idx)) < MinStoryLen
               THEN <<Finding("Story", story_idx + 1, 1, "too short", 0)>>
               ELSE <<>>

RECURSIVE StoryConcat(_, _, _, _, _)
StoryConcat(lines, path, c, ms, x) ==
  IF x > Len(ms) THEN <<>>
  ELSE StoryFindingsOf(lines, path, c, ms[x])
       \o StoryConcat(lines, path, c, ms, x + 1)

StoryFindings(lines, path, c) ==
  StoryConcat(lines, path, c, StoryMatches(lines), 1)

-----------------------------------------------------------------------------
(* The rule pass over one file *)

ScanNativeArray ==
  /\ pc = "NativeArray"
  /\ results' = IF cfg.CheckNativeArray
                THEN results \o NativeArrayFindings(text) ELSE results
  /\ pc' = "Nulls"
  /\ UNCHANGED <<text, relPath, cfg>>

ScanNulls ==
  /\ pc = "Nulls"
  /\ results' = IF cfg.CheckNulls
                THEN results \o NullFindings(text, relPath, cfg) ELSE results
  /\ pc' = "SealedClasses"
  /\ UNCHANGED <<text, relPath, cfg>>

ScanSealedClasses ==
  /\ pc = "SealedClasses"
  /\ results' = IF cfg.CheckSealedClasses
                THEN results \o ClassFindings(text) ELSE results
  /\ pc' = "EntityNull"
  /\ UNCHANGED <<text, relPath, cfg>>

ScanEntityNull ==
  /\ pc = "EntityNull"
  /\ results' = IF cfg.CheckEntityNull
                THEN results \o EntityNullFindings(text) ELSE results
  /\ pc' = "BurstRef"
  /\ UNCHANGED <<text, relPath, cfg>>

\* the story block is nested in 'if cfg.get('CheckBurstRef'):'
ScanBurstRef ==
  /\ pc = "BurstRef"
  /\ results' = IF cfg.CheckBurstRef
                THEN results \o BurstFindings(text) ELSE results
  /\ pc' = IF cfg.CheckBurstRef THEN "StoryComments" ELSE "done"
  /\ UNCHANGED <<text, relPath, cfg>>

ScanStoryComments ==
  /\ pc = "StoryComments"
  /\ results' = IF cfg.CheckStoryComments
                THEN results \o StoryFindings(text, relPath, cfg) ELSE results
  /\ pc' = "done"
  /\ UNCHANGED <<text, relPath, cfg>>

Next ==
  \/ ScanNativeArray
  \/ ScanNulls
  \/ ScanSealedClasses
  \/ ScanEntityNull
  \/ ScanBurstRef
  \/ ScanStoryComments

-----------------------------------------------------------------------------
(* Scanned files *)

MaxLines == 2
MaxBurstLen == 23
MaxGap == 6
MaxFollow == 3
MaxPre == 2

\* all sequences over S of length at most n
SeqsUpTo(S, n) == UNION {[1..k -> S] : k \in 0..n}

Blank == <<>>
Code == <<"int", "x;">>
AttrBurst == <<"[BurstCompile]">>
AttrOther == <<"[Serializable]">>
BurstInline == <<"//", "[BurstCompile]">>
Brace == <<"{">>
BraceRef == <<"{", "ref", "int", "x">>
RefLine == <<"void", "F(", "ref", "int", "x)">>
RefState == <<"void", "OnUpdate(", "ref", "SystemState", "s)">>
RefIgnored == <<"void", "F(", "ref", "int", "x)", "//", "copilot-ignore">>
NativeLine == <<"NativeArray<int>", "a;">>
NativeIgnored == <<"NativeArray<int>", "a;", "//", "copilot-ignore">>
NullLine == <<"y", "=", "null;">>
NullIgnored == <<"y", "=", "null;", "//", "U+1F6AB">>
ClassIgnored == <<"public", "class", "Bar", "//", "copilot-ignore">>
EntityLine == <<"return", "Entity.Null;">>
DeclComponent == <<"public", "struct", "Foo", ":", "IComponentData">>
DeclSystem == <<"public", "partial", "struct", "Foo", ":", "ISystem">>
DeclSystemIgnored ==
  <<"public", "partial", "struct", "Foo", ":", "ISystem", "//", "copilot-ignore">>
DeclPlain == <<"public", "class", "Foo">>
DeclAuthoring == <<"public", "class", "FooAuthoring">>
TokenLine == <<",", "IComponentData">>
StoryLong == <<"//", "Story:", "a2345678901234567890">>
StoryShort == <<"//", "Story:", "a234567890123456789">>
StoryWordsLine == <<"//", "Story:", "moves", "every", "dot", "ahead">>
StoryLower == <<"//", "story:", "a2345678901234567890">>
StoryUpper == <<"//", "STORY:", "a2345678901234567890">>

ScriptPath == <<"Assets", "Scripts", "T.cs">>
EditorPath == <<"Assets", "Editor", "T.cs">>

Toggles ==
  [CheckNativeArray : BOOLEAN, CheckNulls : BOOLEAN, CheckSealedClasses : BOOLEAN,
   CheckBurstRef : BOOLEAN, CheckEntityNull : BOOLEAN, CheckStoryComments : BOOLEAN,
   ExemptEditorNullChecks : BOOLEAN]

\* the defaults of the script, all six rules enabled
Defaults ==
  [CheckNativeArray |-> TRUE, CheckNulls |-> TRUE, CheckSealedClasses |-> TRUE,
   CheckBurstRef |-> TRUE, CheckEntityNull |-> TRUE, CheckStoryComments |-> TRUE,
   ExemptEditorNullChecks |-> TRUE]

GeneralLines ==
  {NativeLine, NativeIgnored, NullLine, NullIgnored, ClassIgnored, EntityLine,
   DeclComponent, BurstInline, RefLine, RefIgnored}

GeneralFiles == SeqsUpTo(GeneralLines, MaxLines)

\* one trigger on line 1, an optional second trigger, a 'ref ' line anywhere,
\* an optional second one on line 3 and an optional closing line, among plain
\* code lines
BurstFile(t2, k2, r1, r2, k3, c, kc) ==
  [i \in 1..MaxBurstLen |->
     IF i = 1 THEN AttrBurst
     ELSE IF i = t2 THEN k2
     ELSE IF i = c THEN kc
     ELSE IF i = r1 THEN RefLine
     ELSE IF i = r2 THEN k3
     ELSE Code]

BurstFiles ==
  {BurstFile(tk[1], tk[2], r1, rk[1], rk[2], ck[1], ck[2]) :
     tk \in {<<0, Code>>, <<2, BurstInline>>, <<2, AttrBurst>>,
             <<MaxBurstLen - 2, AttrBurst>>},
     r1 \in 2..MaxBurstLen,
     rk \in {<<0, Code>>} \cup ({3} \X {RefLine, RefState, RefIgnored}),
     ck \in {<<0, Code>>, <<5, AttrOther>>}
            \cup ({2, 5, 12, MaxBurstLen - 4} \X {Brace, BraceRef})}

StoryTops ==
  {<<>>, <<Code>>, <<StoryLong>>, <<StoryShort>>, <<StoryWordsLine>>,
   <<StoryLower>>, <<StoryUpper>>}

StoryFiles ==
  {top \o gap \o <<decl>> :
     top \in StoryTops, gap \in SeqsUpTo({Blank, AttrOther}, MaxGap),
     decl \in {DeclSystem, DeclSystemIgnored}}

CandidateFiles ==
  {top \o decl \o follow :
     top \in SeqsUpTo({Blank}, 2),
     decl \in {<<DeclPlain>>, <<DeclSystem>>, <<DeclAuthoring>>,
               <<<<"public">>, <<"class", "Foo">>>>},
     follow \in SeqsUpTo({Code, TokenLine}, MaxFollow)}

\* '[visibility] [partial] [sealed] [static] [abstract] class Foo'
ClassDecl(v, p, s, t, a) ==
  v \o (IF p THEN <<"partial">> ELSE <<>>) \o (IF s THEN <<"sealed">> ELSE <<>>)
    \o (IF t THEN <<"static">> ELSE <<>>) \o (IF a THEN <<"abstract">> ELSE <<>>)
    \o <<"class", "Foo">>

ClassDecls ==
  {ClassDecl(v, p, s, t, a) :
     v \in {<<>>, <<"public">>, <<"internal">>},
     p \in BOOLEAN, s \in BOOLEAN, t \in BOOLEAN, a \in BOOLEAN}

ClassFiles ==
  {pre \o <<decl>> \o post :
     pre \in SeqsUpTo({Blank, Code}, MaxPre), decl \in ClassDecls,
     post \in {<<>>, <<ClassIgnored>>}}

Init ==
  /\ results = <<>>
  /\ pc = "NativeArray"
  /\ \/ /\ text \in GeneralFiles
        /\ relPath = ScriptPath
        /\ cfg \in {c \in Toggles : c.ExemptEditorNullChecks}
     \/ /\ text \in BurstFiles \cup ClassFiles \cup CandidateFiles
        /\ relPath = ScriptPath
        /\ cfg = Defaults
     \/ /\ text \in StoryFiles
        /\ relPath \in {ScriptPath, EditorPath}
        /\ cfg \in {c \in Toggles : \A f \in DOMAIN c \ {"ExemptEditorNullChecks"} : c[f]}

Spec == Init /\ [][Next]_vars

-----------------------------------------------------------------------------
(* Vocabulary of the properties *)

Done == pc = "done"

\* the documentation checker has been run on the file
StoryRan == Done /\ cfg.CheckBurstRef /\ cfg.CheckStoryComments

Reported(tag, info, ln) ==
  \E x \in 1..Len(results) :
    results[x].tag = tag /\ results[x].info = info /\ results[x].ln = ln

\* the trigger on line i has flagged line j
FlaggedBy(i, j) ==
  \E x \in 1..Len(results) :
    results[x].tag = "Burst+ref" /\ results[x].ln = j /\ results[x].trig = i

\* a line with the 'ref ' token that is neither the exception nor suppressed
Flaggable(line) ==
  ContainsRef(line) /\ ~ContainsRefSystemState(line) /\ ~HasIgnoreMarker(line)

\* no closing line strictly between lines i and j
OpenBetween(i, j) == \A c \in (i + 1)..(j - 1) : ~ClosesWindow(text[c])

Transparent(line) == line = <<>> \/ Head(line) \in BracketWords

\* a '//' comment with the keyword and ':' in any letter case
IsStoryCommentAnyCase(s) ==
  s # <<>> /\ Head(s) \in CommentWords
  /\ \E k \in 1..Len(s) : s[k] \in StoryWordsAnyCase

\* the candidates of the documentation rule that are not suppressed
Candidates ==
  {x \in 1..Len(StoryMatches(text)) :
     LET m == StoryMatches(text)[x]
     IN FoundToken(text, m) /\ ~HasIgnoreMarker(text[m.nameLn])}

Exempt == cfg.ExemptEditorNullChecks /\ InEditorPath(relPath)

-----------------------------------------------------------------------------
(* Properties *)

\* C1: no finding of any rule is reported for a match whose own source line
\* contains a suppression marker.
C1_Suppressed ==
  \A x \in 1..Len(results) : ~HasIgnoreMarker(text[results[x].ln])

\* C2: with CheckStoryComments on, the documentation findings of the pass are
\* those of the documentation checker, whatever the other toggles are.
C2_OwnToggle ==
  (Done /\ cfg.CheckStoryComments) =>
    SelectSeq(results, LAMBDA f : f.tag = "Story")
      = StoryFindings(text, relPath, cfg)

\* C3: with no closing line in between, a flaggable line at distance d from a
\* trigger is flagged by that trigger exactly when 1 <= d <= 20.
C3_Window20 ==
  (Done /\ cfg.CheckBurstRef) =>
    \A i \in 1..Len(text) : \A j \in (i + 1)..Len(text) :
      (HasBurst(text[i]) /\ OpenBetween(i, j) /\ Flaggable(text[j]))
        => (FlaggedBy(i, j) <=> j - i <= 20)

\* C4: a Story comment d lines above the declaration of a candidate, with
\* only blank or attribute lines in between, is accepted (no 'missing'
\* finding) exactly when 1 <= d <= 6.
C4_Reach6 ==
  (StoryRan /\ ~Exempt) =>
    \A x \in Candidates :
      LET m == StoryMatches(text)[x]
      IN \A s \in 1..(m.nameLn - 1) :
           (IsStoryComment(text[s])
            /\ \A g \in (s + 1)..(m.nameLn - 1) : Transparent(text[g]))
             => (~Reported("Story", "missing", m.ln) <=> m.nameLn - s <= 6)

\* C5 as stated: a declaration is a candidate exactly when its remainder or
\* one of the three lines following the declaration line has a marker token.
C5_ThreeFollowing ==
  (StoryRan /\ ~Exempt) =>
    \A x \in 1..Len(StoryMatches(text)) :
      LET m == StoryMatches(text)[x]
      IN (~HasIgnoreMarker(text[m.nameLn]) /\ StoryScan(text, m.ln, m.ln - 2) = -1)
           => (Reported("Story", "missing", m.ln)
                 <=> \/ HasInteresting(m.remainder)
                     \/ \E k \in (m.nameLn + 1)..Min(Len(text), m.nameLn + 3) :
                          HasInteresting(text[k]))

\* C5 amended: a declaration is a candidate exactly when its remainder has a
\* marker token or one of the three lines that start with the line on which
\* its match begins has one (the declaration line and the two lines after it
\* when no whitespace-only line directly precedes the declaration).
C5_ThreeFromMatchStart ==
  (StoryRan /\ ~Exempt) =>
    \A x \in 1..Len(StoryMatches(text)) :
      LET m == StoryMatches(text)[x]
      IN (~HasIgnoreMarker(text[m.nameLn]) /\ StoryScan(text, m.ln, m.ln - 2) = -1)
           => (Reported("Story", "missing", m.ln)
                 <=> \/ HasInteresting(m.remainder)
                     \/ \E k \in m.ln..Min(Len(text), m.ln + 2) :
                          HasInteresting(text[k]))

\* a declaration with no blank line above it whose only marker token is on the
\* second line after it has been reported, and the file goes on after that line
C5_Witness ==
  /\ StoryRan
  /\ \E x \in 1..Len(StoryMatches(text)) :
       LET m == StoryMatches(text)[x]
       IN /\ m.ln = m.nameLn /\ m.ln + 2 <= Len(text)
          /\ ~HasInteresting(text[m.ln]) /\ ~HasInteresting(text[m.ln + 1])
          /\ HasInteresting(text[m.ln + 2])
          /\ Reported("Story", "missing", m.ln)

\* a line that is written as a whole class declaration
IsClassDecl(line) == ClassMatchAt(<<line>>, Flat(<<line>>), 1).ok

\* a line of modifiers only, the start of a declaration that goes on below
OnlyModifiers(line) ==
  line # <<>> /\ \A k \in 1..Len(line) :
     line[k] \in Visibility \cup {"partial", "sealed", "static", "abstract"}

\* C6: a class declaration written on line n gets exactly one finding on
\* line n, column 1, with its name, when it is neither sealed nor static, and
\* none when it is.
C6_DeclarationLine ==
  (Done /\ cfg.CheckSealedClasses) =>
    \A n \in 1..Len(text) :
      (IsClassDecl(text[n]) /\ (n = 1 \/ ~OnlyModifiers(text[n - 1]))) =>
        LET d == ClassMatchAt(<<text[n]>>, Flat(<<text[n]>>), 1)
            hits == {x \in 1..Len(results) :
                       /\ results[x].tag = "Unsealed Class"
                       /\ results[x].ln = n /\ results[x].col = 1
                       /\ results[x].info = d.name}
        IN Cardinality(hits) = IF d.sealed \/ d.static THEN 0 ELSE 1

RECURSIVE FirstContent(_, _)
\* the line at which the backward scan from line ln stops (0-based), -1 when
\* the scan runs out of lines first
FirstContent(ln, prev) ==
  IF ~(prev >= 0 /\ ln - prev <= StoryReach) THEN -1
  ELSE IF Transparent(At(text, prev)) THEN FirstContent(ln, prev - 1)
  ELSE prev

\* C7: when the backward scan stops at a '//' comment with the keyword and
\* ':' in any letter case, the comment is accepted: no 'missing' finding.
C7_AnyCase ==
  StoryRan =>
    \A x \in Candidates :
      LET m == StoryMatches(text)[x]
          stop == FirstContent(m.ln, m.ln - 2)
      IN (stop # -1 /\ IsStoryCommentAnyCase(At(text, stop)))
           => ~Reported("Story", "missing", m.ln)

\* C8: the findings of one rule are in non-decreasing line order.
C8_Ascending ==
  \A x \in 1..Len(results) : \A y \in (x + 1)..Len(results) :
    results[x].tag = results[y].tag => results[x].ln <= results[y].ln

\* C9: for an unsuppressed candidate (a) with no documentation line found,
\* 'missing' is reported unless the file is exempt; (b) with one found whose
\* text is shorter than 20, 'too short' is reported on the comment's line,
\* exempt or not; (c) with a text of 20 or more nothing is reported.
C9_Outcome ==
  StoryRan =>
    \A x \in Candidates :
      LET m == StoryMatches(text)[x]
          story_idx == StoryScan(text, m.ln, m.ln - 2)
      IN IF story_idx = -1
         THEN Reported("Story", "missing", m.ln) <=> ~Exempt
         ELSE /\ ~Reported("Story", "missing", m.ln)
              /\ Reported("Story", "too short", story_idx + 1)
                   <=> StoryAfterLen(At(text, story_idx)) < 20

\* in an exempt file, a candidate with too short a comment has been reported
\* on the comment's line
C9_Witness ==
  /\ StoryRan /\ Exempt
  /\ \E x \in Candidates :
       LET m == StoryMatches(text)[x]
           story_idx == StoryScan(text, m.ln, m.ln - 2)
       IN /\ story_idx # -1
          /\ story_idx + 1 < m.nameLn
          /\ Reported("Story", "too short", story_idx + 1)

====
